---------------------------- MODULE Spec2Model ----------------------------
(***************************************************************************)
(* Real-estate feasibility calculator (src/real_estate_webapp.py):         *)
(* RealEstateFeasibilityCalculator and the Streamlit session around it.    *)
(*                                                                         *)
(* Numbers.  The program computes in Python floats.  The model computes in *)
(* decimal floating point: a number is <<m, e>> and stands for m * 10^e,   *)
(* with 10^7 <= |m| < 10^8 (eight significant digits), or <<0, 0>>.  Every *)
(* operation rounds its result to eight digits, as a float operation       *)
(* rounds to 53 bits, so that x + 0 = x and x * 1 = x hold while           *)
(* (a / b) * b = a need not.  Values that Python keeps as int (loan term,  *)
(* holding period, year and payment counts) are TLA+ integers.             *)
(***************************************************************************)
EXTENDS Integers, Sequences, FiniteSets, TLC

----------------------------------------------------------------------------
(* Decimal floating point                                                  *)

Digits == 8
MantHi == 10 ^ Digits          \* |m| < MantHi
MantLo == 10 ^ (Digits - 1)    \* |m| >= MantLo unless m = 0
Limb == 10 ^ 4                 \* half a mantissa, for products
MaxExp10 == 308                \* a float overflows above about 1.8e308
MinExp10 == 0 - 324            \* and underflows to 0.0 below about 5e-324

Zero == <<0, 0>>

IAbs(n) == IF n < 0 THEN 0 - n ELSE n
ISign(n) == IF n < 0 THEN 0 - 1 ELSE 1

\* Quotient q and remainder r of a division by d, rounded to nearest, ties
\* to even.
RoundQR(q, r, d) == IF 2 * r > d \/ (2 * r = d /\ q % 2 = 1) THEN q + 1 ELSE q
RoundDiv(n, d) == RoundQR(n \div d, n % d, d)

\* a * 10^e for a > 0 below 10^10, cut to at most eight digits.
NormCut(a, e) ==
    IF a >= 10 * MantHi THEN <<RoundDiv(a, 100), e + 2>>
    ELSE IF a >= MantHi THEN <<RoundDiv(a, 10), e + 1>>
    ELSE <<a, e>>

\* Rounding up may carry into a ninth digit: 99999999.5 -> 10^8.
NormCarry(b) == IF b[1] >= MantHi THEN <<b[1] \div 10, b[2] + 1>> ELSE b

RECURSIVE NormUp(_, _)
\* m > 0 below MantHi: scale up to eight digits (exact).
NormUp(m, e) == IF m >= MantLo THEN <<m, e>> ELSE NormUp(m * 10, e - 1)

\* The sign put back; a magnitude below the float range is 0.0.
NormSigned(s, b) ==
    IF b[2] + Digits - 1 < MinExp10 THEN Zero ELSE <<s * b[1], b[2]>>

NormPos(s, b) == NormSigned(s, NormUp(b[1], b[2]))

\* The number m * 10^e for any integer m, rounded to eight digits.
Norm(m, e) ==
    IF m = 0 THEN Zero ELSE NormPos(ISign(m), NormCarry(NormCut(IAbs(m), e)))

\* The literal n * 10^(-k): Num(35, 1) is 3.5.
Num(n, k) == Norm(n, 0 - k)
FromInt(n) == Norm(n, 0)
One == <<MantLo, 1 - Digits>>

FNeg(a) == <<0 - a[1], a[2]>>
FAbs(a) == <<IAbs(a[1]), a[2]>>
IsZero(a) == a[1] = 0

\* The representation is unique, so order is decided on sign, exponent, mantissa.
FLt(a, b) ==
    IF a[1] = 0 \/ b[1] = 0 \/ ISign(a[1]) # ISign(b[1])
    THEN (IF a[1] = 0 THEN 0 < b[1] ELSE IF b[1] = 0 THEN a[1] < 0 ELSE a[1] < b[1])
    ELSE IF a[2] # b[2]
         THEN (IF a[1] > 0 THEN a[2] < b[2] ELSE a[2] > b[2])
         ELSE a[1] < b[1]
FLe(a, b) == a = b \/ FLt(a, b)
FGt(a, b) == FLt(b, a)
FGe(a, b) == FLe(b, a)
FMax(a, b) == IF FLt(a, b) THEN b ELSE a
FMin(a, b) == IF FLt(b, a) THEN b ELSE a

\* hi + lo for hi[2] >= lo[2], both non-zero: lo is aligned to one guard
\* digit below hi; d is the distance of the exponents.
AddAligned(hi, lo, d) ==
    IF d = 0 THEN <<hi[1] + lo[1], hi[2]>>
    ELSE IF d > Digits + 1 THEN hi
    ELSE <<hi[1] * 10 + ISign(lo[1]) * RoundDiv(IAbs(lo[1]), 10 ^ (d - 1)),
           hi[2] - 1>>
AddOrdered(hi, lo) == AddAligned(hi, lo, hi[2] - lo[2])
NormPair(b) == Norm(b[1], b[2])

\* a + b
FAdd(a, b) ==
    IF a[1] = 0 THEN b
    ELSE IF b[1] = 0 THEN a
    ELSE NormPair(AddOrdered(IF a[2] >= b[2] THEN a ELSE b,
                             IF a[2] >= b[2] THEN b ELSE a))
FSub(a, b) == FAdd(a, FNeg(b))

\* The sixteen-digit product of two mantissas as <<high, rest>>, standing for
\* high * 10^8 + rest, from the four products of their limbs.
MulSplit(h, low) == <<h + low \div MantHi, low % MantHi>>
MulSum(hh, cross, ll) == MulSplit(hh + cross \div Limb, (cross % Limb) * Limb + ll)
MulLimbs(x1, x0, y1, y0) == MulSum(x1 * y1, x1 * y0 + x0 * y1, x0 * y0)
MulMant(x, y) == MulLimbs(x \div Limb, x % Limb, y \div Limb, y % Limb)

\* <<high, rest>> rounded once to at most nine digits, with the exponent shift.
MulRound(p) ==
    IF p[1] >= MantLo
    THEN <<p[1] + (IF 2 * p[2] >= MantHi THEN 1 ELSE 0), Digits>>
    ELSE <<p[1] * 10 + RoundDiv(p[2], MantLo), Digits - 1>>

Scaled(s, e, b) == Norm(s * b[1], e + b[2])

\* a * b
FMul(a, b) ==
    IF a[1] = 0 \/ b[1] = 0 THEN Zero
    ELSE Scaled(ISign(a[1]) * ISign(b[1]), a[2] + b[2],
                MulRound(MulMant(IAbs(a[1]), IAbs(b[1]))))

RECURSIVE LongDiv(_, _, _, _)
\* k more quotient digits of r / d appended to q.
LongDiv(q, r, d, k) ==
    IF k = 0 THEN <<q, r>>
    ELSE LongDiv(q * 10 + (r * 10) \div d, (r * 10) % d, d, k - 1)

\* The quotient digits qr[1] (nine or eight) with remainder qr[2], rounded.
DivRound(qr, y) ==
    <<qr[1] + (IF qr[1] < MantHi /\ 2 * qr[2] >= y THEN 1 ELSE 0), 0 - Digits>>
DivMant(x, y) == DivRound(LongDiv(x \div y, x % y, y, Digits), y)

\* a / b for b # 0 (the callers raise ZeroDivisionError on b = 0).
FDiv(a, b) ==
    IF a[1] = 0 THEN Zero
    ELSE Scaled(ISign(a[1]) * ISign(b[1]), a[2] - b[2],
                DivMant(IAbs(a[1]), IAbs(b[1])))

FSquare(a) == FMul(a, a)
PowOdd(sq, a, odd) == IF odd = 0 THEN sq ELSE FMul(sq, a)

RECURSIVE PowNat(_, _)
\* a ** n for an int n >= 0, by squaring.
PowNat(a, n) ==
    IF n = 0 THEN One
    ELSE IF n = 1 THEN a
    ELSE PowOdd(FSquare(PowNat(a, n \div 2)), a, n % 2)

\* float ** int.  Python raises OverflowError when the result leaves the
\* float range and ZeroDivisionError on 0.0 ** negative: PowFails says so.
Overflows(a) == a[1] # 0 /\ a[2] + Digits - 1 > MaxExp10
Inverse(a) == FDiv(One, a)
InverseFails(a) == IsZero(a) \/ Overflows(FDiv(One, a))
PowAbs(a, n) == PowNat(a, IAbs(n))
FPow(a, n) == IF n >= 0 THEN PowAbs(a, n) ELSE Inverse(PowAbs(a, n))
PowFails(a, n) ==
    IF n >= 0 THEN Overflows(PowAbs(a, n)) ELSE InverseFails(PowAbs(a, n))

RECURSIVE SqrtIter(_, _, _)
\* Newton's iteration x <- (x + a / x) / 2, until it stops moving.
SqrtNext(a, x, nx, k) == IF k = 0 \/ nx = x THEN nx ELSE SqrtIter(a, nx, k - 1)
SqrtIter(a, x, k) == SqrtNext(a, x, FDiv(FAdd(x, FDiv(a, x)), FromInt(2)), k)

\* math.sqrt(a) for a >= 0, started from 10^(half the exponent).
FSqrt(a) ==
    IF a[1] <= 0 THEN Zero
    ELSE SqrtIter(a, Norm(3, (a[2] + Digits) \div 2), 40)

RECURSIVE FSum(_)
\* sum(xs): Python's left-to-right sum starting from int 0.
FSum(xs) == IF xs = <<>> THEN Zero
            ELSE FAdd(FSum(SubSeq(xs, 1, Len(xs) - 1)), xs[Len(xs)])

----------------------------------------------------------------------------
(* RealEstateFeasibilityCalculator                                         *)

Hundred == FromInt(100)
Twelve == FromInt(12)

Iterations == 1000             \* _calculate_irr_manual(..., iterations=1000)
InitialRate == Num(1, 1)       \* rate = 0.1
LooseTolerance == FromInt(1)   \* a tolerance of 1 instead
Tolerance == Num(1, 2)         \* abs(npv) < 0.01

\* sum(cf / (1 + rate) ** i for i, cf in enumerate(cash_flows)); u is 1 + rate.
RECURSIVE NpvSum(_, _, _)
NpvSum(cfs, u, n) ==
    IF n = 0 THEN Zero
    ELSE FAdd(NpvSum(cfs, u, n - 1), FDiv(cfs[n], FPow(u, n - 1)))

\* sum(-i * cf / (1 + rate) ** (i + 1) for i, cf in enumerate(cash_flows))
RECURSIVE NpvDerivativeSum(_, _, _)
NpvDerivativeSum(cfs, u, n) ==
    IF n = 0 THEN Zero
    ELSE FAdd(NpvDerivativeSum(cfs, u, n - 1),
              FDiv(FMul(FromInt(0 - (n - 1)), cfs[n]), FPow(u, n)))

\* An iteration raises (OverflowError from **, ZeroDivisionError from /) when
\* a power of 1 + rate leaves the float range or is 0.0.
IterationRaises(cfs, u) ==
    \E n \in 1..Len(cfs) : PowFails(u, n) \/ IsZero(FPow(u, n))

\* The end of a pass: return rate when abs(npv) < 0.01, break on a zero
\* derivative, else rate = rate - npv / npv_derivative.
NewtonUpdate(rate, npv, npv_derivative) ==
    IF FLt(FAbs(npv), Tolerance) THEN <<rate, "converged">>
    ELSE IF IsZero(npv_derivative) THEN <<rate, "flat">>
    ELSE <<FSub(rate, FDiv(npv, npv_derivative)), "running">>

\* The two sums of a pass at rate; u is 1 + rate.
NewtonPass(cfs, rate, u) ==
    IF IterationRaises(cfs, u) THEN <<rate, "raised">>
    ELSE NewtonUpdate(rate, NpvSum(cfs, u, Len(cfs)),
                      NpvDerivativeSum(cfs, u, Len(cfs)))

\* One pass of the loop body from <<rate, how>>; how is "running" while the
\* loop goes on, and otherwise tells how it ended (not part of the
\* program's result, which is the rate).
IrrStep(cfs, s) ==
    IF s[2] # "running" THEN s ELSE NewtonPass(cfs, s[1], FAdd(One, s[1]))

RECURSIVE IrrLoop(_, _, _)
\* The k passes left after the loop reached mid.
IrrRest(cfs, mid, k) == IF mid[2] # "running" THEN mid ELSE IrrLoop(cfs, mid, k)

\* for _ in range(k): k passes are the first k \div 2 and then the rest.
IrrLoop(cfs, s, k) ==
    IF k = 0 THEN s
    ELSE IF k = 1 THEN IrrStep(cfs, s)
    ELSE IrrRest(cfs, IrrLoop(cfs, s, k \div 2), k - k \div 2)

\* After the loop, return rate.
LoopEnd(s) == IF s[2] = "running" THEN <<s[1], "exhausted">> ELSE s

\* _calculate_irr_manual
calculate_irr_manual(cash_flows) ==
    LoopEnd(IrrLoop(cash_flows, <<InitialRate, "running">>, Iterations))

\* return irr * 100, or 0.0 from the except clause.
IrrPercent(r) == IF r[2] = "raised" THEN Zero ELSE FMul(r[1], Hundred)

\* calculate_irr: np.irr is absent from the numpy the app runs on
\* (AttributeError), so the manual solver runs; any exception gives 0.0.
calculate_irr(cash_flows) == IrrPercent(calculate_irr_manual(cash_flows))

\* A discounting that starts one period late: the first flow is left out.
NpvWithoutOutlay(discount_rate, cash_flows) ==
    NpvSum(Tail(cash_flows), FAdd(One, FDiv(discount_rate, Hundred)),
           Len(cash_flows) - 1)

\* calculate_npv: np.npv is absent likewise; the sum is taken by hand.
calculate_npv(discount_rate, cash_flows) ==
    NpvSum(cash_flows, FAdd(One, FDiv(discount_rate, Hundred)), Len(cash_flows))

calculate_gross_yield(property_price, annual_rent) ==
    IF FGt(property_price, Zero)
    THEN FMul(FDiv(annual_rent, property_price), Hundred)
    ELSE Zero

calculate_net_yield(property_price, annual_rent, annual_costs) ==
    IF FGt(property_price, Zero)
    THEN FMul(FDiv(FSub(annual_rent, annual_costs), property_price), Hundred)
    ELSE Zero

calculate_cap_rate(property_price, noi) ==
    IF FGt(property_price, Zero)
    THEN FMul(FDiv(noi, property_price), Hundred)
    ELSE Zero

\* A return computed for every investment other than 0.
CashOnCashOfNonZero(annual_cash_flow, initial_investment) ==
    IF IsZero(initial_investment) THEN Zero
    ELSE FMul(FDiv(annual_cash_flow, initial_investment), Hundred)

calculate_cash_on_cash(annual_cash_flow, initial_investment) ==
    IF FGt(initial_investment, Zero)
    THEN FMul(FDiv(annual_cash_flow, initial_investment), Hundred)
    ELSE Zero

\* generate_cash_flow_projection, lines 121-133: the locals set before the
\* year loop.
DownPayment(p) == FMul(p.property_price, FDiv(p.down_payment_pct, Hundred))
LoanAmount(p) == FSub(p.property_price, DownPayment(p))
HasLoan(p) == FGt(LoanAmount(p), Zero) /\ p.loan_term_years > 0
MonthlyRate(p) == FDiv(FDiv(p.interest_rate, Hundred), Twelve)

\* loan_amount * (monthly_rate * growth) / (growth - 1), growth being
\* (1 + monthly_rate) ** num_payments.
Annuity(loan_amount, monthly_rate, growth) ==
    FDiv(FMul(loan_amount, FMul(monthly_rate, growth)), FSub(growth, One))

\* A payment spread over the years of the term, not over its months.
PaymentPerYear(loan_amount, monthly_rate, num_payments) ==
    IF FGt(monthly_rate, Zero)
    THEN Annuity(loan_amount, monthly_rate,
                 FPow(FAdd(One, monthly_rate), num_payments))
    ELSE FDiv(loan_amount, FromInt(num_payments \div 12))

\* The annuity formula applied to every rate other than 0.
PaymentOfNonZeroRate(loan_amount, monthly_rate, num_payments) ==
    IF ~IsZero(monthly_rate)
    THEN Annuity(loan_amount, monthly_rate,
                 FPow(FAdd(One, monthly_rate), num_payments))
    ELSE FDiv(loan_amount, FromInt(num_payments))

\* The inner if of lines 127-131.
PaymentOf(loan_amount, monthly_rate, num_payments) ==
    IF FGt(monthly_rate, Zero)
    THEN Annuity(loan_amount, monthly_rate,
                 FPow(FAdd(One, monthly_rate), num_payments))
    ELSE FDiv(loan_amount, FromInt(num_payments))

MonthlyPayment(p) ==
    IF HasLoan(p)
    THEN PaymentOf(LoanAmount(p), MonthlyRate(p), p.loan_term_years * 12)
    ELSE Zero

\* The locals as the loop finds them.  monthly_rate is bound only on the
\* branch of line 124, and it is read only under the same condition.
LoanLocals(p) ==
    [down_payment |-> DownPayment(p),
     loan_amount |-> LoanAmount(p),
     monthly_rate |-> MonthlyRate(p),
     monthly_payment |-> MonthlyPayment(p)]

\* The annuity formula applied whatever the sign of remaining_payments.
BalanceUnclamped(l, remaining_payments) ==
    IF FGt(l.monthly_rate, Zero)
    THEN FMul(l.monthly_payment,
              FDiv(FSub(One, FPow(FAdd(One, l.monthly_rate), 0 - remaining_payments)),
                   l.monthly_rate))
    ELSE Zero

\* Lines 152-155: the balance with remaining_payments still to pay.
BalanceOf(l, remaining_payments) ==
    IF remaining_payments > 0 /\ FGt(l.monthly_rate, Zero)
    THEN FMul(l.monthly_payment,
              FDiv(FSub(One, FPow(FAdd(One, l.monthly_rate), 0 - remaining_payments)),
                   l.monthly_rate))
    ELSE Zero

\* Lines 149-157: loan_balance in the sale year.
LoanBalance(p, l, year) ==
    IF FGt(l.loan_amount, Zero) /\ p.loan_term_years > 0
    THEN BalanceOf(l, p.loan_term_years * 12 - year * 12)
    ELSE Zero

\* Lines 146-147 and 159.
CurrentValue(p, year) ==
    FMul(p.property_price, FPow(FAdd(One, FDiv(p.appreciation_rate, Hundred)), year))
SellingCosts(p, current_value) ==
    FMul(current_value, FDiv(p.selling_costs_pct, Hundred))
SaleProceeds(p, current_value, loan_balance) ==
    FSub(FSub(current_value, SellingCosts(p, current_value)), loan_balance)
NetSaleProceeds(p, l, year) ==
    SaleProceeds(p, CurrentValue(p, year), LoanBalance(p, l, year))

\* The sale booked in every year, not only in the last.
SaleEveryYear(p, l, year, operating_cash_flow) ==
    FAdd(operating_cash_flow, NetSaleProceeds(p, l, year))

\* Lines 145-162: total_cash_flow of the pass.
TotalCashFlow(p, l, year, operating_cash_flow) ==
    IF year = p.holding_period
    THEN FAdd(operating_cash_flow, NetSaleProceeds(p, l, year))
    ELSE operating_cash_flow

\* The rent escalated before the year's income is computed.
EffectiveRentEscalated(p, current_rent) ==
    FMul(FMul(FMul(current_rent, FAdd(One, FDiv(p.rent_increase_rate, Hundred))),
              FSub(One, FDiv(p.vacancy_rate, Hundred))),
         Twelve)

\* Lines 140-143.
EffectiveRent(p, current_rent) ==
    FMul(FMul(current_rent, FSub(One, FDiv(p.vacancy_rate, Hundred))), Twelve)
AnnualExpenses(p) == FMul(p.monthly_expenses, Twelve)
AnnualMortgage(l) == FMul(l.monthly_payment, Twelve)
OperatingCashFlow(effective_rent, annual_expenses, annual_mortgage) ==
    FSub(FSub(effective_rent, annual_expenses), annual_mortgage)

\* The year's figures before they are appended.
YearFigures(year, effective_rent, annual_expenses, annual_mortgage, total_cash_flow) ==
    [Year |-> year,
     RentalIncome |-> effective_rent,
     Expenses |-> annual_expenses,
     Mortgage |-> annual_mortgage,
     CashFlow |-> total_cash_flow]

YearOf(p, l, year, effective_rent, annual_expenses, annual_mortgage) ==
    YearFigures(year, effective_rent, annual_expenses, annual_mortgage,
                TotalCashFlow(p, l, year,
                              OperatingCashFlow(effective_rent, annual_expenses,
                                                annual_mortgage)))

\* A pass that charges no mortgage once the loan term has elapsed.
YearPassWithinTerm(p, l, year, current_rent) ==
    YearOf(p, l, year, EffectiveRent(p, current_rent), AnnualExpenses(p),
           IF year > p.loan_term_years THEN Zero ELSE AnnualMortgage(l))

YearPass(p, l, year, current_rent) ==
    YearOf(p, l, year, EffectiveRent(p, current_rent), AnnualExpenses(p),
           AnnualMortgage(l))

\* A row whose cumulative figure leaves out the initial outlay.
YearRowWithoutOutlay(y, cash_flows) ==
    [Year |-> y.Year,
     RentalIncome |-> y.RentalIncome,
     Expenses |-> y.Expenses,
     Mortgage |-> y.Mortgage,
     CashFlow |-> y.CashFlow,
     CumulativeCashFlow |-> FSum(Tail(cash_flows))]

\* Lines 166-173: the row of years_data; cash_flows has the year's flow.
YearRow(y, cash_flows) ==
    [Year |-> y.Year,
     RentalIncome |-> y.RentalIncome,
     Expenses |-> y.Expenses,
     Mortgage |-> y.Mortgage,
     CashFlow |-> y.CashFlow,
     CumulativeCashFlow |-> FSum(cash_flows)]

\* Lines 164-175: the appends and the rent escalation that end a pass.
EndOfPass(p, st, y) ==
    [cash_flows |-> Append(st.cash_flows, y.CashFlow),
     years_data |-> Append(st.years_data,
                           YearRow(y, Append(st.cash_flows, y.CashFlow))),
     current_rent |-> FMul(st.current_rent,
                           FAdd(One, FDiv(p.rent_increase_rate, Hundred)))]

\* Lines 135-137.
BeforeLoop(p, l) ==
    [cash_flows |-> <<FNeg(l.down_payment)>>,
     years_data |-> <<>>,
     current_rent |-> p.monthly_rent]

RECURSIVE YearLoop(_, _, _)
PassFrom(p, l, year, st) == EndOfPass(p, st, YearPass(p, l, year, st.current_rent))

\* for year in range(1, n + 1): the locals after the pass for year n.
YearLoop(p, l, n) ==
    IF n <= 0 THEN BeforeLoop(p, l) ELSE PassFrom(p, l, n, YearLoop(p, l, n - 1))

Projection(st) == [cash_flows |-> st.cash_flows, cash_flow_table |-> st.years_data]

\* generate_cash_flow_projection: (cash_flows, df).
generate_cash_flow_projection(p) ==
    Projection(YearLoop(p, LoanLocals(p), p.holding_period))

\* Lines 216-227.
AnalysisResult(p, proj, annual_rent, annual_costs, initial_investment) ==
    [irr |-> calculate_irr(proj.cash_flows),
     npv |-> calculate_npv(p.discount_rate, proj.cash_flows),
     gross_yield |-> calculate_gross_yield(p.property_price, annual_rent),
     net_yield |-> calculate_net_yield(p.property_price, annual_rent, annual_costs),
     cap_rate |-> calculate_cap_rate(
                      p.property_price,
                      FSub(FMul(annual_rent, FSub(One, FDiv(p.vacancy_rate, Hundred))),
                           annual_costs)),
     cash_on_cash |-> calculate_cash_on_cash(
                          IF Len(proj.cash_flows) > 1 THEN proj.cash_flows[2] ELSE Zero,
                          initial_investment),
     cash_flows |-> proj.cash_flows,
     cash_flow_table |-> proj.cash_flow_table,
     initial_investment |-> initial_investment,
     total_return |-> FSum(proj.cash_flows)]

\* comprehensive_analysis; p.discount_rate is its last argument.
comprehensive_analysis(p) ==
    AnalysisResult(p, generate_cash_flow_projection(p),
                   FMul(p.monthly_rent, Twelve),
                   FMul(p.monthly_expenses, Twelve),
                   FMul(p.property_price, FDiv(p.down_payment_pct, Hundred)))

----------------------------------------------------------------------------
(* The Streamlit session: main()                                           *)

None == [none |-> TRUE]

\* Sensitivity form: var_map in its insertion order (lines 830-836), and the
\* percentages of line 866.
SensitivityVars ==
    <<"monthly_rent", "interest_rate", "vacancy_rate", "rent_increase", "appreciation">>
SensitivityPcts == <<0 - 20, 0 - 10, 0, 10, 20>>

\* selected_vars (lines 846-848): the checked keys of var_map, in its order.
SelectedVars(checked) ==
    LET IsChecked(var_key) == var_key \in checked
    IN SelectSeq(SensitivityVars, IsChecked)

\* The percentage taken as the factor itself: pct/100.
PctFactorAsShare(pct) == FDiv(FromInt(pct), Hundred)

\* 1 + pct/100
PctFactor(pct) == FAdd(One, FDiv(FromInt(pct), Hundred))

\* An evaluation that scales the vacancy rate along with every variable.
SensitivityInputCombined(p, var, pct) ==
    IF var = "monthly_rent"
    THEN [p EXCEPT !.monthly_rent = FMul(@, PctFactor(pct)),
                   !.vacancy_rate = FMul(@, PctFactor(pct))]
    ELSE IF var = "interest_rate"
    THEN [p EXCEPT !.interest_rate = FMul(@, PctFactor(pct)),
                   !.vacancy_rate = FMul(@, PctFactor(pct))]
    ELSE IF var = "vacancy_rate"
    THEN [p EXCEPT !.vacancy_rate = FMul(@, PctFactor(pct))]
    ELSE IF var = "rent_increase"
    THEN [p EXCEPT !.rent_increase_rate = FMul(@, PctFactor(pct)),
                   !.vacancy_rate = FMul(@, PctFactor(pct))]
    ELSE [p EXCEPT !.appreciation_rate = FMul(@, PctFactor(pct)),
                   !.vacancy_rate = FMul(@, PctFactor(pct))]

\* The arguments of one evaluation (lines 867-891): copies of the restored
\* parameters, of which the one named by var is scaled.
SensitivityInput(p, var, pct) ==
    IF var = "monthly_rent"
    THEN [p EXCEPT !.monthly_rent = FMul(@, PctFactor(pct))]
    ELSE IF var = "interest_rate"
    THEN [p EXCEPT !.interest_rate = FMul(@, PctFactor(pct))]
    ELSE IF var = "vacancy_rate"
    THEN [p EXCEPT !.vacancy_rate = FMul(@, PctFactor(pct))]
    ELSE IF var = "rent_increase"
    THEN [p EXCEPT !.rent_increase_rate = FMul(@, PctFactor(pct))]
    ELSE IF var = "appreciation"
    THEN [p EXCEPT !.appreciation_rate = FMul(@, PctFactor(pct))]
    ELSE p

\* test_npv (lines 887-892).
TestNpv(discount_rate, test_input) ==
    calculate_npv(discount_rate, generate_cash_flow_projection(test_input).cash_flows)

\* var_results of one variable (lines 863-897).
VarResults(p, var) ==
    [i \in 1..Len(SensitivityPcts) |->
        [pct |-> SensitivityPcts[i],
         npv |-> TestNpv(p.discount_rate, SensitivityInput(p, var, SensitivityPcts[i]))]]

\* max(npvs) and min(npvs) over the first n elements.
RECURSIVE MaxOf(_, _)
MaxOf(npvs, n) == IF n = 1 THEN npvs[1] ELSE FMax(MaxOf(npvs, n - 1), npvs[n])
RECURSIVE MinOf(_, _)
MinOf(npvs, n) == IF n = 1 THEN npvs[1] ELSE FMin(MinOf(npvs, n - 1), npvs[n])

\* One entry of impacts (lines 900-908).
ImpactRecord(var, max_npv, min_npv, base_npv) ==
    [var |-> var, range |-> FSub(max_npv, min_npv), min |-> min_npv,
     max |-> max_npv, base_npv |-> base_npv]
ImpactOf(var, npvs, base_npv) ==
    ImpactRecord(var, MaxOf(npvs, Len(npvs)), MinOf(npvs, Len(npvs)), base_npv)

\* impacts before the sort: one entry per selected variable, in the order
\* of selected_vars.
Impacts(selected_vars, var_results, base_npv) ==
    [k \in 1..Len(selected_vars) |->
        ImpactOf(selected_vars[k],
                 [i \in 1..Len(SensitivityPcts) |-> var_results[selected_vars[k]][i].npv],
                 base_npv)]

\* The entries left in the order in which they were appended.
AppendImpact(imp, sorted) == Append(sorted, imp)

\* impacts.sort(key=lambda x: x['range'], reverse=True) (line 911): the sort
\* is stable, so an entry goes behind every entry whose range is not
\* smaller than its own.
InsertByRange(imp, sorted) ==
    LET k == Cardinality({j \in 1..Len(sorted) : FGe(sorted[j].range, imp.range)})
    IN SubSeq(sorted, 1, k) \o <<imp>> \o SubSeq(sorted, k + 1, Len(sorted))
RECURSIVE SortByRange(_, _)
SortByRange(impacts, n) ==
    IF n = 0 THEN <<>> ELSE InsertByRange(impacts[n], SortByRange(impacts, n - 1))

\* The two percentage columns of a table row (lines 927-928); base_npv # 0.
TableRow(imp) ==
    [var |-> imp.var,
     pct_low |-> FMul(FSub(FDiv(imp.min, imp.base_npv), One), Hundred),
     pct_high |-> FMul(FSub(FDiv(imp.max, imp.base_npv), One), Hundred)]

\* What the table building of lines 920-929 ends with: the division by
\* imp['base_npv'] raises ZeroDivisionError when the stored NPV is 0, and
\* nothing catches it.
SensitivityTable(checked, var_results, impacts, base_npv) ==
    IF IsZero(base_npv)
    THEN [kind |-> "error", raised |-> "ZeroDivisionError", form |-> "sensitivity",
          checked |-> checked]
    ELSE [kind |-> "sensitivity", checked |-> checked, var_results |-> var_results,
          impacts |-> impacts,
          table |-> [k \in 1..Len(impacts) |-> TableRow(impacts[k])]]

SensitivityOf(checked, selected_vars, var_results, base_npv) ==
    SensitivityTable(checked, var_results,
                     SortByRange(Impacts(selected_vars, var_results, base_npv),
                                 Len(selected_vars)),
                     base_npv)

\* What submitting the sensitivity form shows (lines 827-960).
SensitivityPage(p, res, checked) ==
    IF checked = {}
    THEN [kind |-> "sensitivity_warning", checked |-> checked]
    ELSE SensitivityOf(checked, SelectedVars(checked),
                       [var \in checked |-> VarResults(p, var)], res.npv)

\* The deltas applied as fractions of the value, not as changes to it.
ScenarioInputAsShare(p, changes) ==
    [p EXCEPT
       !.interest_rate = FAdd(p.interest_rate, changes.interest_pct),
       !.vacancy_rate = FMul(p.vacancy_rate, FDiv(changes.occupancy_pct, Hundred)),
       !.monthly_rent = FMul(p.monthly_rent, FDiv(changes.rent_pct, Hundred))]

\* The interest delta applied as a percentage of the rate, like the others.
ScenarioInputScaled(p, changes) ==
    [p EXCEPT
       !.interest_rate = FMul(p.interest_rate,
                              FAdd(One, FDiv(changes.interest_pct, Hundred))),
       !.vacancy_rate = FMul(p.vacancy_rate,
                             FAdd(One, FDiv(changes.occupancy_pct, Hundred))),
       !.monthly_rent = FMul(p.monthly_rent,
                             FAdd(One, FDiv(changes.rent_pct, Hundred)))]

\* Scenarios form: the inputs of one scenario (lines 1073-1075).
ScenarioInput(p, changes) ==
    [p EXCEPT
       !.interest_rate = FAdd(p.interest_rate, changes.interest_pct),
       !.vacancy_rate = FMul(p.vacancy_rate,
                             FAdd(One, FDiv(changes.occupancy_pct, Hundred))),
       !.monthly_rent = FMul(p.monthly_rent,
                             FAdd(One, FDiv(changes.rent_pct, Hundred)))]

\* results[scenario_name] (lines 1093-1099).
ScenarioEntry(p, changes, test_cf) ==
    [npv |-> calculate_npv(p.discount_rate, test_cf),
     irr |-> calculate_irr(test_cf),
     interest_change |-> changes.interest_pct,
     occupancy_change |-> changes.occupancy_pct,
     rent_change |-> changes.rent_pct]

\* One pass of the loop over the scenarios (lines 1071-1099).
ScenarioResult(p, changes) ==
    ScenarioEntry(p, changes,
                  generate_cash_flow_projection(ScenarioInput(p, changes)).cash_flows)

BaseChanges == [interest_pct |-> Zero, occupancy_pct |-> Zero, rent_pct |-> Zero]

\* scenarios (lines 1050-1066) and the loop over it.
ScenarioResults(p, worst, best) ==
    [name \in {"Worst", "Base", "Best"} |->
        ScenarioResult(p, IF name = "Worst" THEN worst
                          ELSE IF name = "Best" THEN best
                          ELSE BaseChanges)]

\* (x / base - 1) * 100 if base != 0 else 0 (lines 1150-1151, 1169-1170).
PctChange(x, base) ==
    IF IsZero(base) THEN Zero ELSE FMul(FSub(FDiv(x, base), One), Hundred)

\* The comparison table of one submission (lines 1108-1176).
Comparison(res) ==
    [results |-> res,
     worst_npv_pct |-> PctChange(res["Worst"].npv, res["Base"].npv),
     best_npv_pct |-> PctChange(res["Best"].npv, res["Base"].npv),
     worst_irr_pct |-> PctChange(res["Worst"].irr, res["Base"].irr),
     best_irr_pct |-> PctChange(res["Best"].irr, res["Base"].irr)]

ScenarioComparison(p, worst, best) == Comparison(ScenarioResults(p, worst, best))

\* st.session_state.scenario_npvs (lines 1102-1106).
ScenarioNpvs(res) ==
    [worst |-> res["Worst"].npv, base |-> res["Base"].npv, best |-> res["Best"].npv]

\* A tolerance of 1 on the sum of the probabilities.
ProbabilitiesNearlyValid(probs) ==
    FLe(FAbs(FSub(FAdd(FAdd(probs.worst, probs.base), probs.best), Hundred)), One)

\* Risk form: abs(total_prob - 100.0) <= 0.01 (lines 1303-1313).
TotalProb(probs) == FAdd(FAdd(probs.worst, probs.base), probs.best)
ProbabilitiesValid(probs) == FLe(FAbs(FSub(TotalProb(probs), Hundred)), Num(1, 2))

\* A score taken as computed, without the clamp.
Unclamped(x) == x

\* min(100, max(0, x))
Clamp100(x) == FMin(Hundred, FMax(Zero, x))

\* annual_debt_service of the breakeven calculation (lines 1349-1356).
BreakevenDebtService(p) ==
    IF p.loan_term_years > 0 /\ FGt(p.interest_rate, Zero)
    THEN FMul(Annuity(FMul(p.property_price,
                           FSub(One, FDiv(p.down_payment_pct, Hundred))),
                      MonthlyRate(p),
                      FPow(FAdd(One, MonthlyRate(p)), p.loan_term_years * 12)),
              Twelve)
    ELSE Zero

\* The NPVs weighted with the percentages themselves, not divided by 100.
ExpectedNpvOfPercent(npvs, probs) ==
    FAdd(FAdd(FMul(npvs.worst, probs.worst), FMul(npvs.base, probs.base)),
         FMul(npvs.best, probs.best))

\* 1. Probability-weighted expected NPV (lines 1317-1323).
ExpectedNpv(npvs, probs) ==
    FAdd(FAdd(FMul(npvs.worst, FDiv(probs.worst, Hundred)),
              FMul(npvs.base, FDiv(probs.base, Hundred))),
         FMul(npvs.best, FDiv(probs.best, Hundred)))

\* 2. Standard deviation (lines 1326-1330).
MeanNpv(npvs) == FDiv(FAdd(FAdd(npvs.worst, npvs.base), npvs.best), FromInt(3))
Variance(npvs, mean_npv) ==
    FDiv(FAdd(FAdd(FPow(FSub(npvs.worst, mean_npv), 2),
                   FPow(FSub(npvs.base, mean_npv), 2)),
              FPow(FSub(npvs.best, mean_npv), 2)),
         FromInt(3))
StdDev(npvs, mean_npv) == FSqrt(Variance(npvs, mean_npv))

\* Coefficient of variation (line 1333).
Cv(npvs, std_dev) ==
    IF IsZero(npvs.base) THEN Zero
    ELSE FMul(FDiv(std_dev, FAbs(npvs.base)), Hundred)

\* The share taken for every base NPV other than 0, the negative included.
ShareOfNonZeroBase(x, base_npv) ==
    IF ~IsZero(base_npv) THEN Clamp100(FMul(FDiv(x, base_npv), Hundred)) ELSE Zero

\* 3. The components of the risk score (lines 1337-1343).
ShareOfBase(x, base_npv) ==
    IF FGt(base_npv, Zero) THEN Clamp100(FMul(FDiv(x, base_npv), Hundred)) ELSE Zero
VolatilityScore(cv) ==
    IF FLt(cv, Hundred) THEN FMax(Zero, FSub(Hundred, cv)) ELSE Zero

\* Line 1345.
RiskScore(worst_score, volatility_score, expected_score) ==
    FAdd(FAdd(FMul(worst_score, Num(4, 1)), FMul(volatility_score, Num(3, 1))),
         FMul(expected_score, Num(3, 1)))

\* 4. Breakeven occupancy (lines 1358-1362).
BreakevenOccupancy(total_annual_costs, annual_rent_potential) ==
    IF FGt(annual_rent_potential, Zero)
    THEN FMul(FDiv(total_annual_costs, annual_rent_potential), Hundred)
    ELSE Hundred
\* The margin as the difference leaves it, below 0 included.
MarginUnclamped(p, breakeven_occupancy) ==
    FSub(FSub(Hundred, p.vacancy_rate), breakeven_occupancy)

MarginOfSafety(p, breakeven_occupancy) ==
    FMax(Zero, FSub(FSub(Hundred, p.vacancy_rate), breakeven_occupancy))

\* The figures of one valid submission, from the values they are computed of.
RiskFigures(p, expected_npv, mean_npv, std_dev, cv, worst_score, volatility_score, expected_score, annual_debt_service, breakeven_occupancy) ==
    [expected_npv |-> expected_npv,
     mean_npv |-> mean_npv,
     std_dev |-> std_dev,
     cv |-> cv,
     worst_score |-> worst_score,
     volatility_score |-> volatility_score,
     expected_score |-> expected_score,
     risk_score |-> RiskScore(worst_score, volatility_score, expected_score),
     annual_debt_service |-> annual_debt_service,
     breakeven_occupancy |-> breakeven_occupancy,
     margin_of_safety |-> MarginOfSafety(p, breakeven_occupancy)]

RiskFromCv(npvs, p, expected_npv, mean_npv, std_dev, cv, annual_debt_service) ==
    RiskFigures(p, expected_npv, mean_npv, std_dev, cv,
                ShareOfBase(npvs.worst, npvs.base),
                VolatilityScore(cv),
                ShareOfBase(expected_npv, npvs.base),
                annual_debt_service,
                BreakevenOccupancy(FAdd(FMul(p.monthly_expenses, Twelve),
                                        annual_debt_service),
                                   FMul(p.monthly_rent, Twelve)))

RiskFromStdDev(npvs, p, expected_npv, mean_npv, std_dev) ==
    RiskFromCv(npvs, p, expected_npv, mean_npv, std_dev, Cv(npvs, std_dev),
               BreakevenDebtService(p))

RiskFromMean(npvs, probs, p, mean_npv) ==
    RiskFromStdDev(npvs, p, ExpectedNpv(npvs, probs), mean_npv,
                   StdDev(npvs, mean_npv))

\* The risk assessment of one valid submission (lines 1314-1362).
RiskAssessment(npvs, probs, p) == RiskFromMean(npvs, probs, p, MeanNpv(npvs))

\* What submitting the risk form shows: the assessment, or only the error
\* message of line 1305 when the probabilities do not sum to 100.
RiskPage(npvs, probs, p) ==
    IF ProbabilitiesValid(probs)
    THEN [kind |-> "risk", probs |-> probs, npvs |-> npvs,
          risk |-> RiskAssessment(npvs, probs, p)]
    ELSE [kind |-> "risk_rejected", probs |-> probs, npvs |-> npvs]

----------------------------------------------------------------------------
(* State                                                                   *)

VARIABLES
    results,          \* st.session_state.results
    analysis_params,  \* st.session_state.analysis_params
    scenario_npvs,    \* st.session_state.scenario_npvs
    page,             \* what the last rerun's form processing displayed
    call,             \* a direct call of the calculator: its arguments
    ret               \* and what it returned

vars == <<results, analysis_params, scenario_npvs, page, call, ret>>
session == <<results, analysis_params, scenario_npvs, page>>

Params(price, down, term, rate, rent, expenses, vacancy, increase, hold, appr, selling, discount) ==
    [property_price |-> price, down_payment_pct |-> down, loan_term_years |-> term,
     interest_rate |-> rate, monthly_rent |-> rent, monthly_expenses |-> expenses,
     vacancy_rate |-> vacancy, rent_increase_rate |-> increase,
     holding_period |-> hold, appreciation_rate |-> appr,
     selling_costs_pct |-> selling, discount_rate |-> discount]

----------------------------------------------------------------------------
(* The session: Run Analysis, the Scenarios form, the Risk form            *)

MaxSessionHold == 2

\* A purchase without loan, rent, costs or appreciation, discounted at 0%:
\* the price paid comes back at the sale and the NPV is 0.
ZeroNpvInput ==
    Params(FromInt(1000), FromInt(100), 3, Zero, Zero, Zero, FromInt(5), FromInt(2),
           1, Zero, Zero, Zero)

\* Sidebar values the user may have entered when pressing Run Analysis.
\* Eight digits resolve the solver's tolerance of 0.01 only for cash flows
\* below about 10^5, so the amounts are small: a price of 1000, a rent of 3.
SidebarInputs ==
    {p \in {Params(FromInt(1000), FromInt(20), 3, rate, FromInt(3), Num(6, 1),
            FromInt(5), FromInt(2), hold, FromInt(3), FromInt(5), FromInt(5)) :
        rate \in {Zero, Num(35, 1)},
        hold \in 1..MaxSessionHold} :
       FGt(p.interest_rate, Zero) \/ p.holding_period = 1}
    \cup {ZeroNpvInput}

\* The checkboxes ticked when the sensitivity form is submitted.
CheckedInputs ==
    {{},
     {"monthly_rent"},
     {"monthly_rent", "interest_rate", "vacancy_rate", "rent_increase", "appreciation"}}

Changes(interest, occupancy, rent) ==
    [interest_pct |-> interest, occupancy_pct |-> occupancy, rent_pct |-> rent]
\* The form's defaults, and its extremes.
WorstChanges == {Changes(FromInt(5), FromInt(10), FromInt(0 - 10)),
                 Changes(FromInt(10), FromInt(50), FromInt(0 - 50))}
BestChanges == {Changes(FromInt(0 - 5), FromInt(0 - 10), FromInt(10)),
                Changes(Zero, Zero, Zero)}

Probs(w, b, g) == [worst |-> w, base |-> b, best |-> g]
ProbInputs == {Probs(FromInt(25), FromInt(50), FromInt(25)),
               Probs(FromInt(25), FromInt(50), Num(245, 1)),
               Probs(FromInt(25), FromInt(50), Num(24995, 3))}

SessionInit ==
    /\ results = None
    /\ analysis_params = None
    /\ scenario_npvs = None
    /\ page = [kind |-> "welcome"]

\* Run Analysis (lines 613-637).
RunAnalysis(p) ==
    /\ results' = comprehensive_analysis(p)
    /\ analysis_params' = p
    /\ page' = [kind |-> "dashboard"]
    /\ UNCHANGED <<scenario_npvs, call, ret>>

\* Submitting the Scenarios form (lines 1045-1106); the tabs exist only
\* while session_state.results is set, and use the restored parameters.
SubmitScenarios(worst, best) ==
    /\ results # None
    /\ page' = [kind |-> "scenarios", worst |-> worst, best |-> best,
                comparison |-> ScenarioComparison(analysis_params, worst, best)]
    /\ scenario_npvs' = ScenarioNpvs(page'.comparison.results)
    /\ UNCHANGED <<results, analysis_params, call, ret>>

\* Submitting the sensitivity form (lines 827-960).
SubmitSensitivity(checked) ==
    /\ results # None
    /\ page' = SensitivityPage(analysis_params, results, checked)
    /\ UNCHANGED <<results, analysis_params, scenario_npvs, call, ret>>

\* A risk form that is offered without scenario NPVs, and computes on zeros.
SubmitRiskUngated(probs) ==
    /\ results # None
    /\ page' = RiskPage(IF scenario_npvs = None
                        THEN [worst |-> Zero, base |-> Zero, best |-> Zero]
                        ELSE scenario_npvs,
                        probs, analysis_params)
    /\ UNCHANGED <<results, analysis_params, scenario_npvs, call, ret>>

\* Submitting the Risk form (lines 1246-1362); the form exists only once
\* scenario_npvs is set.
SubmitRisk(probs) ==
    /\ results # None
    /\ scenario_npvs # None
    /\ page' = RiskPage(scenario_npvs, probs, analysis_params)
    /\ UNCHANGED <<results, analysis_params, scenario_npvs, call, ret>>

\* A rerun that recomputes the results from the widgets' values without
\* Run Analysis having been pressed.
ChangeSidebarReactive(p) ==
    /\ results' = comprehensive_analysis(p)
    /\ page' = [kind |-> "dashboard"]
    /\ UNCHANGED <<analysis_params, scenario_npvs, call, ret>>

\* Changing a sidebar widget to give the values p reruns main() with
\* calculate_btn False (lines 486-609): the block of lines 613-637 is
\* skipped, and the page is drawn from session_state.results and the
\* restored analysis_params (lines 639-654), not from p.
ChangeSidebar(p) ==
    /\ page' = IF results = None THEN [kind |-> "welcome"] ELSE [kind |-> "dashboard"]
    /\ UNCHANGED <<results, analysis_params, scenario_npvs, call, ret>>

Init == SessionInit /\ call = None /\ ret = None

Next ==
    \/ \E p \in SidebarInputs : RunAnalysis(p)
    \/ \E p \in SidebarInputs : ChangeSidebar(p)
    \/ \E worst \in WorstChanges, best \in BestChanges : SubmitScenarios(worst, best)
    \/ \E checked \in CheckedInputs : SubmitSensitivity(checked)
    \/ \E probs \in ProbInputs : SubmitRisk(probs)

Spec == Init /\ [][Next]_vars

----------------------------------------------------------------------------
(* Properties of the session, checked on Spec                              *)

\* C2: whatever the Worst and Best deltas, the Base scenario of a
\* submitted Scenarios form has the NPV and the IRR that
\* comprehensive_analysis gives for the stored input and discount rate,
\* which are those the session holds in results.
C2_BaseReproducesAnalysis ==
    page.kind = "scenarios" =>
        /\ page.comparison.results["Base"].npv = results.npv
        /\ page.comparison.results["Base"].irr = results.irr
        /\ results.npv = comprehensive_analysis(analysis_params).npv
        /\ results.irr = comprehensive_analysis(analysis_params).irr

\* A comparison with non-zero Worst deltas, whose Worst NPV is not the
\* Base one.
C2_Witness ==
    /\ page.kind = "scenarios"
    /\ ~IsZero(page.worst.rent_pct)
    /\ ~IsZero(page.best.rent_pct)
    /\ page.comparison.results["Worst"].npv # page.comparison.results["Base"].npv
    /\ page.comparison.results["Base"].npv = results.npv
    /\ ~IsZero(results.npv)

\* The probabilities of the submitted risk form sum to 100 within 0.01.
SumsTo100(probs) ==
    /\ FLe(FAdd(FAdd(probs.worst, probs.base), probs.best), Num(10001, 2))
    /\ FGe(FAdd(FAdd(probs.worst, probs.base), probs.best), Num(9999, 2))

\* C9: submitting the risk form computes an assessment exactly when the
\* three probabilities sum to 100 within 0.01; any other triple leaves the
\* page without expected NPV, risk score or breakeven figure; and the
\* assessment weighs the NPVs with the probabilities as entered.
C9_RiskOnlyWhenValid ==
    /\ page.kind = "risk" =>
          /\ SumsTo100(page.probs)
          /\ page.risk.expected_npv =
                 FAdd(FAdd(FMul(page.npvs.worst, FDiv(page.probs.worst, Hundred)),
                           FMul(page.npvs.base, FDiv(page.probs.base, Hundred))),
                      FMul(page.npvs.best, FDiv(page.probs.best, Hundred)))
    /\ page.kind = "risk_rejected" =>
          /\ ~SumsTo100(page.probs)
          /\ "risk" \notin DOMAIN page

\* The triple 25 / 50 / 24.5 was submitted, and no assessment made.
C9_Witness ==
    /\ page.kind = "risk_rejected"
    /\ page.probs = Probs(FromInt(25), FromInt(50), Num(245, 1))
    /\ "risk" \notin DOMAIN page

\* C15: every step of the session (Run Analysis, the sensitivity, scenario
\* and risk forms) ends with a complete result or a validation message and
\* never with an unhandled arithmetic error; in particular a sensitivity
\* submitted while the stored NPV is 0 shows its table of percentage
\* changes.
C15_StepsEndWithResult ==
    /\ page.kind \in {"welcome", "dashboard", "sensitivity", "sensitivity_warning",
                      "scenarios", "risk", "risk_rejected"}
    /\ (page.kind = "sensitivity" /\ IsZero(results.npv)) =>
           Len(page.table) = Len(page.impacts)

\* The stored input with the one variable var multiplied by factor, and
\* every other field as stored.
OnlyScaled(p, var, factor) ==
    [property_price |-> p.property_price,
     down_payment_pct |-> p.down_payment_pct,
     loan_term_years |-> p.loan_term_years,
     interest_rate |-> IF var = "interest_rate" THEN FMul(p.interest_rate, factor)
                       ELSE p.interest_rate,
     monthly_rent |-> IF var = "monthly_rent" THEN FMul(p.monthly_rent, factor)
                      ELSE p.monthly_rent,
     monthly_expenses |-> p.monthly_expenses,
     vacancy_rate |-> IF var = "vacancy_rate" THEN FMul(p.vacancy_rate, factor)
                      ELSE p.vacancy_rate,
     rent_increase_rate |-> IF var = "rent_increase" THEN FMul(p.rent_increase_rate, factor)
                            ELSE p.rent_increase_rate,
     holding_period |-> p.holding_period,
     appreciation_rate |-> IF var = "appreciation" THEN FMul(p.appreciation_rate, factor)
                           ELSE p.appreciation_rate,
     selling_costs_pct |-> p.selling_costs_pct,
     discount_rate |-> p.discount_rate]

\* The factors 0.8, 0.9, 1, 1.1, 1.2 of the five evaluations.
Factors == <<Num(8, 1), Num(9, 1), One, Num(11, 1), Num(12, 1)>>

\* x is the largest (the smallest) of the five NPVs of var_results.
IsMaxNpv(x, var_results) ==
    /\ \E i \in 1..5 : var_results[i].npv = x
    /\ \A i \in 1..5 : FLe(var_results[i].npv, x)
IsMinNpv(x, var_results) ==
    /\ \E i \in 1..5 : var_results[i].npv = x
    /\ \A i \in 1..5 : FGe(var_results[i].npv, x)

\* C17: each selected variable is evaluated at -20, -10, 0, 10 and 20 per
\* cent; an evaluation's NPV is that of the stored input with this one
\* variable multiplied by 1 + pct/100 and every other input as stored, at
\* the stored discount rate; and the variable's record carries the range
\* max(NPV) - min(NPV) of its five points.
C17_OneVariableAtATime ==
    page.kind = "sensitivity" =>
        /\ DOMAIN page.var_results = page.checked
        /\ \A var \in page.checked :
              /\ DOMAIN page.var_results[var] = 1..5
              /\ \A i \in 1..5 :
                    /\ page.var_results[var][i].pct = <<0 - 20, 0 - 10, 0, 10, 20>>[i]
                    /\ page.var_results[var][i].npv =
                           calculate_npv(
                               analysis_params.discount_rate,
                               generate_cash_flow_projection(
                                   OnlyScaled(analysis_params, var, Factors[i])).cash_flows)
        /\ \A k \in 1..Len(page.impacts) :
              /\ page.impacts[k].var \in page.checked
              /\ IsMaxNpv(page.impacts[k].max, page.var_results[page.impacts[k].var])
              /\ IsMinNpv(page.impacts[k].min, page.var_results[page.impacts[k].var])
              /\ page.impacts[k].range = FSub(page.impacts[k].max, page.impacts[k].min)

\* All five variables were analysed for an input with interest, and the
\* rent's NPV at -20% lies below its NPV at 0%.
C17_Witness ==
    /\ page.kind = "sensitivity"
    /\ Cardinality(page.checked) = 5
    /\ FGt(analysis_params.interest_rate, Zero)
    /\ FLt(page.var_results["monthly_rent"][1].npv, page.var_results["monthly_rent"][3].npv)
    /\ page.var_results["interest_rate"][5].npv # page.var_results["interest_rate"][3].npv
    /\ \E k \in 1..5 : page.impacts[k].var = "monthly_rent" /\ FGt(page.impacts[k].range, Zero)

\* The place of a variable in var_map.
PlaceOf(var) == CHOOSE i \in 1..Len(SensitivityVars) : SensitivityVars[i] = var

\* C18: the sensitivity output has exactly one record per selected
\* variable, in the order of non-increasing range (records of equal range
\* in the order of the form's variables); and it depends on nothing but the
\* stored inputs and the selection: running the step again on them gives
\* the same records in the same order.
C18_RankingDeterministic ==
    page.kind = "sensitivity" =>
        /\ Len(page.impacts) = Cardinality(page.checked)
        /\ {page.impacts[k].var : k \in 1..Len(page.impacts)} = page.checked
        /\ \A j, k \in 1..Len(page.impacts) :
              j < k =>
                 /\ FGe(page.impacts[j].range, page.impacts[k].range)
                 /\ page.impacts[j].range = page.impacts[k].range =>
                        PlaceOf(page.impacts[j].var) < PlaceOf(page.impacts[k].var)
        /\ page = SensitivityPage(analysis_params, results, page.checked)

\* Five records of which two have the same range, and of which the sort
\* moved one ahead of a variable that precedes it in the form.
C18_Witness ==
    /\ page.kind = "sensitivity"
    /\ Len(page.impacts) = 5
    /\ \E j, k \in 1..5 : j < k /\ page.impacts[j].range = page.impacts[k].range
    /\ FGt(page.impacts[1].range, page.impacts[2].range)
    /\ \E k \in 1..4 : PlaceOf(page.impacts[k].var) > PlaceOf(page.impacts[k + 1].var)

\* The stored input with the interest rate raised by a delta in percentage
\* points, the vacancy rate and the rent scaled by 1 + delta/100, and every
\* other field as stored.
WithDeltas(p, interest_delta, vacancy_delta, rent_delta) ==
    [property_price |-> p.property_price,
     down_payment_pct |-> p.down_payment_pct,
     loan_term_years |-> p.loan_term_years,
     interest_rate |-> FAdd(p.interest_rate, interest_delta),
     monthly_rent |-> FMul(p.monthly_rent, FAdd(One, FDiv(rent_delta, Hundred))),
     monthly_expenses |-> p.monthly_expenses,
     vacancy_rate |-> FMul(p.vacancy_rate, FAdd(One, FDiv(vacancy_delta, Hundred))),
     rent_increase_rate |-> p.rent_increase_rate,
     holding_period |-> p.holding_period,
     appreciation_rate |-> p.appreciation_rate,
     selling_costs_pct |-> p.selling_costs_pct,
     discount_rate |-> p.discount_rate]

\* The deltas the caller supplied for a scenario; Base has none.
SuppliedDeltas(name) ==
    IF name = "Worst" THEN page.worst
    ELSE IF name = "Best" THEN page.best
    ELSE [interest_pct |-> Zero, occupancy_pct |-> Zero, rent_pct |-> Zero]

\* C19: each of Worst, Base and Best is computed on the stored input with
\* interest = base_interest + interest_delta, vacancy = base_vacancy *
\* (1 + vacancy_delta/100), rent = base_rent * (1 + rent_delta/100) and
\* every other input unchanged; and its entry records the deltas applied,
\* which are the ones supplied.
C19_ScenarioInputs ==
    page.kind = "scenarios" =>
        \A name \in {"Worst", "Base", "Best"} :
            /\ page.comparison.results[name].interest_change =
                   SuppliedDeltas(name).interest_pct
            /\ page.comparison.results[name].occupancy_change =
                   SuppliedDeltas(name).occupancy_pct
            /\ page.comparison.results[name].rent_change = SuppliedDeltas(name).rent_pct
            /\ page.comparison.results[name].npv =
                   calculate_npv(
                       analysis_params.discount_rate,
                       generate_cash_flow_projection(
                           WithDeltas(analysis_params,
                                      SuppliedDeltas(name).interest_pct,
                                      SuppliedDeltas(name).occupancy_pct,
                                      SuppliedDeltas(name).rent_pct)).cash_flows)
            /\ page.comparison.results[name].irr =
                   calculate_irr(
                       generate_cash_flow_projection(
                           WithDeltas(analysis_params,
                                      SuppliedDeltas(name).interest_pct,
                                      SuppliedDeltas(name).occupancy_pct,
                                      SuppliedDeltas(name).rent_pct)).cash_flows)

\* A comparison on an input with interest, with Worst deltas of +10 points,
\* +50% and -50%, whose three NPVs differ.
C19_Witness ==
    /\ page.kind = "scenarios"
    /\ FGt(analysis_params.interest_rate, Zero)
    /\ page.worst = Changes(FromInt(10), FromInt(50), FromInt(0 - 50))
    /\ page.comparison.results["Worst"].interest_change = FromInt(10)
    /\ FLt(page.comparison.results["Worst"].npv, page.comparison.results["Base"].npv)
    /\ page.comparison.results["Best"].npv # page.comparison.results["Base"].npv

\* C22: in every sequence of Run Analysis and form submissions, a step that
\* shows a risk assessment starts in a state in which a Scenarios
\* computation has stored all three NPVs (worst, base, best), and it
\* assesses those; a sensitivity step changes none of results,
\* analysis_params and scenario_npvs, so that the scenario comparison and
\* the risk assessment shown after it are those computed from the stored
\* values alone.
C22_RiskAfterScenarios ==
    [][/\ page'.kind = "risk" =>
             /\ scenario_npvs # None
             /\ DOMAIN scenario_npvs = {"worst", "base", "best"}
             /\ page'.npvs = scenario_npvs
             /\ page'.risk = RiskAssessment(scenario_npvs, page'.probs, analysis_params)
       /\ page'.kind \in {"sensitivity", "sensitivity_warning", "error"} =>
             UNCHANGED <<results, analysis_params, scenario_npvs>>
       /\ page'.kind = "scenarios" =>
             /\ scenario_npvs' = ScenarioNpvs(page'.comparison.results)
             /\ page'.comparison =
                    ScenarioComparison(analysis_params, page'.worst, page'.best)
      ]_vars

\* A risk assessment of three different stored NPVs.
C22_Witness ==
    /\ page.kind = "risk"
    /\ scenario_npvs # None
    /\ page.npvs = scenario_npvs
    /\ FLt(scenario_npvs.worst, scenario_npvs.base)
    /\ FLt(scenario_npvs.base, scenario_npvs.best)

\* The input contract of the engine.
InContract(p) ==
    /\ p.holding_period >= 1
    /\ FGe(p.property_price, Zero)
    /\ FGe(p.monthly_rent, Zero)
    /\ FGe(p.monthly_expenses, Zero)

\* The domain of the projection's input: the input contract, an interest
\* rate of at least 0 and a vacancy rate within [0, 100].
InDomain(p) ==
    /\ InContract(p)
    /\ FGe(p.interest_rate, Zero)
    /\ FGe(p.vacancy_rate, Zero)
    /\ FLe(p.vacancy_rate, Hundred)

\* C25: when the stored input lies in the projection's domain, so does
\* every input that the scenario step (for the deltas submitted) and the
\* sensitivity step (for every perturbation level) pass to
\* generate_cash_flow_projection: the vacancy rate stays in [0, 100] and
\* the interest rate at or above 0.
C25_PerturbedInputsInDomain ==
    (analysis_params # None /\ InDomain(analysis_params)) =>
        /\ page.kind = "scenarios" =>
              /\ InDomain(ScenarioInput(analysis_params, page.worst))
              /\ InDomain(ScenarioInput(analysis_params, BaseChanges))
              /\ InDomain(ScenarioInput(analysis_params, page.best))
        /\ page.kind = "sensitivity" =>
              \A var \in page.checked : \A i \in 1..Len(SensitivityPcts) :
                  InDomain(SensitivityInput(analysis_params, var, SensitivityPcts[i]))

\* C26: the scenario NPVs held in the session, and so the NPVs a risk
\* assessment reads, are those the scenario step computes from the
\* analysis parameters stored now (the ones the breakeven figures use),
\* never those of an earlier Run Analysis.
C26_ScenarioNpvsCurrent ==
    /\ scenario_npvs # None =>
          \E worst \in WorstChanges : \E best \in BestChanges :
              scenario_npvs = ScenarioNpvs(ScenarioResults(analysis_params, worst, best))
    /\ page.kind = "risk" => page.npvs = scenario_npvs

\* C27: results and analysis_params are both None or both set, and when
\* set results is comprehensive_analysis of the stored analysis_params;
\* changing the sidebar's inputs without pressing Run Analysis, and
\* submitting the Sensitivity, Scenarios or Risk form, leave both
\* unchanged.
C27_ResultsMatchParams ==
    /\ [](/\ results = None <=> analysis_params = None
          /\ results # None => results = comprehensive_analysis(analysis_params))
    /\ [][/\ (\E p \in SidebarInputs : ChangeSidebar(p)) =>
                 UNCHANGED <<results, analysis_params>>
          /\ page'.kind \notin {"welcome", "dashboard"} =>
                 UNCHANGED <<results, analysis_params>>
          /\ (results' # results \/ analysis_params' # analysis_params) =>
                 /\ page'.kind = "dashboard"
                 /\ analysis_params' \in SidebarInputs
         ]_vars

\* A form's page shown for a stored analysis that a later change of the
\* sidebar has not touched: the parameters are not the first ones entered.
C27_Witness ==
    /\ page.kind \in {"sensitivity", "scenarios", "risk"}
    /\ results # None
    /\ analysis_params # None
    /\ results = comprehensive_analysis(analysis_params)
    /\ FGt(analysis_params.interest_rate, Zero)

\* The year's operating cash flow, read from its row of the table.
RowOperating(row) == FSub(FSub(row.RentalIncome, row.Expenses), row.Mortgage)

\* The projection of the input t charges loan_amount / (term * 12) a month
\* in every year and subtracts no loan balance from the sale.
StraightLineLoan(t, proj) ==
    /\ \A k \in 1..t.holding_period :
          proj.cash_flow_table[k].Mortgage =
              FMul(FDiv(LoanAmount(t), FromInt(t.loan_term_years * 12)), Twelve)
    /\ proj.cash_flows[t.holding_period + 1] =
          FAdd(RowOperating(proj.cash_flow_table[t.holding_period]),
               SaleProceeds(t, CurrentValue(t, t.holding_period), Zero))

\* C28: when the interest rate a scenario passes on (base rate plus delta)
\* is negative and there is a loan, the projection is that of a zero rate:
\* the monthly payment is loan_amount / (term * 12) and the loan balance
\* at sale is 0 even when payments remain.
C28_NegativeRateAsZero ==
    page.kind = "scenarios" =>
        \A changes \in {page.worst, page.best} :
            LET t == ScenarioInput(analysis_params, changes)
            IN (FLt(t.interest_rate, Zero) /\ HasLoan(t)) =>
                  /\ StraightLineLoan(t, generate_cash_flow_projection(t))
                  /\ generate_cash_flow_projection(t) =
                         generate_cash_flow_projection([t EXCEPT !.interest_rate = Zero])

\* A best case of -5 points on a stored rate of 3.5, with a loan of which
\* payments remain at the sale.
C28_Witness ==
    /\ page.kind = "scenarios"
    /\ FGt(analysis_params.interest_rate, Zero)
    /\ FLt(ScenarioInput(analysis_params, page.best).interest_rate, Zero)
    /\ HasLoan(analysis_params)
    /\ analysis_params.loan_term_years > analysis_params.holding_period
    /\ FGt(page.comparison.results["Best"].npv, page.comparison.results["Base"].npv)

\* The stored value of the input that a sensitivity variable stands for
\* (var_map, lines 830-836).
BaseValue(p, var) ==
    IF var = "monthly_rent" THEN p.monthly_rent
    ELSE IF var = "interest_rate" THEN p.interest_rate
    ELSE IF var = "vacancy_rate" THEN p.vacancy_rate
    ELSE IF var = "rent_increase" THEN p.rent_increase_rate
    ELSE p.appreciation_rate

\* C29: for every selected sensitivity variable the NPV computed at the
\* perturbation of 0% is the stored results['npv'], so the variable's
\* minimum and maximum NPV enclose the base NPV, and a variable whose
\* stored value is 0 has a range of 0.
C29_ZeroPerturbationIsBase ==
    page.kind = "sensitivity" =>
        /\ \A var \in page.checked :
              \E i \in 1..Len(SensitivityPcts) :
                  /\ page.var_results[var][i].pct = 0
                  /\ page.var_results[var][i].npv = results.npv
        /\ Len(page.impacts) = Cardinality(page.checked)
        /\ \A k \in 1..Len(page.impacts) :
              /\ page.impacts[k].var \in page.checked
              /\ page.impacts[k].base_npv = results.npv
              /\ FLe(page.impacts[k].min, results.npv)
              /\ FLe(results.npv, page.impacts[k].max)
              /\ IsZero(BaseValue(analysis_params, page.impacts[k].var)) =>
                     IsZero(page.impacts[k].range)

\* A table in which the interest rate, stored as 0, has range 0 and the
\* base NPV lies strictly inside the range of another variable.
C29_Witness ==
    /\ page.kind = "sensitivity"
    /\ IsZero(analysis_params.interest_rate)
    /\ \E k \in 1..Len(page.impacts) :
          /\ page.impacts[k].var = "interest_rate"
          /\ IsZero(page.impacts[k].range)
    /\ \E k \in 1..Len(page.impacts) :
          /\ FLt(page.impacts[k].min, results.npv)
          /\ FLt(results.npv, page.impacts[k].max)

----------------------------------------------------------------------------
(* Direct calls of comprehensive_analysis                                  *)

MaxTerm == 3
MaxHold == 3

ProjInputs ==
    {Params(price, down, term, rate, rent, Num(6, 1), vacancy, increase, hold,
            FromInt(3), FromInt(5), discount) :
        price \in {Zero, FromInt(1000)},
        down \in {Zero, FromInt(20), FromInt(100)},
        term \in 1..MaxTerm,
        rate \in {Zero, Num(35, 1)},
        rent \in {Zero, FromInt(3)},
        vacancy \in {Zero, FromInt(5)},
        increase \in {Zero, FromInt(2)},
        hold \in 1..MaxHold,
        discount \in {Zero, FromInt(5)}}

InitProj ==
    /\ results = None /\ analysis_params = None /\ scenario_npvs = None
    /\ page = [kind |-> "welcome"]
    /\ call \in {[fn |-> "comprehensive_analysis", p |-> p] : p \in ProjInputs}
    /\ ret = None

CallAnalysis ==
    /\ call # None /\ call.fn = "comprehensive_analysis"
    /\ ret = None
    /\ ret' = comprehensive_analysis(call.p)
    /\ UNCHANGED <<session, call>>

NextProj == CallAnalysis

SpecProj == InitProj /\ [][NextProj]_vars

----------------------------------------------------------------------------
(* Properties of the projection, checked on SpecProj                       *)

\* a and b agree to one part in a million.
Nearly(a, b) == FLe(FAbs(FSub(a, b)), FMul(Num(1, 6), FAbs(b)))

\* C1: for holding_period >= 1 the cash-flow series has holding_period + 1
\* elements, its first element is -(property_price * (down_payment_pct / 100)),
\* every year before the last carries the operating cash flow alone, and the
\* last year carries the operating cash flow plus the net sale proceeds
\* (sale value - selling costs - loan balance).
C1_SeriesShape ==
    (ret # None /\ call.p.holding_period >= 1) =>
        LET p == call.p
            n == call.p.holding_period
            cf == ret.cash_flows
            rows == ret.cash_flow_table
        IN /\ Len(cf) = n + 1
           /\ Len(rows) = n
           /\ cf[1] = FNeg(FMul(p.property_price, FDiv(p.down_payment_pct, Hundred)))
           /\ \A k \in 1..(n - 1) : cf[k + 1] = RowOperating(rows[k])
           /\ cf[n + 1] = FAdd(RowOperating(rows[n]),
                               NetSaleProceeds(p, LoanLocals(p), n))

\* A projection over several years whose sale nets something.
C1_Witness ==
    /\ ret # None
    /\ call.p.holding_period >= 2
    /\ ~IsZero(NetSaleProceeds(call.p, LoanLocals(call.p), call.p.holding_period))
    /\ ret.cash_flows[call.p.holding_period + 1]
           # RowOperating(ret.cash_flow_table[call.p.holding_period])

\* C3: at a discount rate of 0% calculate_npv returns the sum of the series,
\* which is the total_return comprehensive_analysis reports; an analysis
\* run at 0% reports npv = total_return.
C3_NpvAtZeroIsSum ==
    ret # None =>
        /\ calculate_npv(Zero, ret.cash_flows) = FSum(ret.cash_flows)
        /\ calculate_npv(Zero, ret.cash_flows) = ret.total_return
        /\ IsZero(call.p.discount_rate) => ret.npv = ret.total_return

\* An analysis at 0% of a series with flows of both signs and a return # 0.
C3_Witness ==
    /\ ret # None
    /\ IsZero(call.p.discount_rate)
    /\ Len(ret.cash_flows) >= 3
    /\ FLt(ret.cash_flows[1], Zero)
    /\ FGt(ret.cash_flows[Len(ret.cash_flows)], Zero)
    /\ ~IsZero(ret.npv)

\* C4: with a loan (principal > 0, term > 0) at 0% interest the monthly
\* payment is principal / (loan_term_years * 12) exactly; every year's
\* Mortgage is twelve such payments, which is principal / loan_term_years up
\* to the rounding of the two divisions (one part in a million here).
C4_ZeroInterestPayment ==
    (ret # None /\ HasLoan(call.p) /\ IsZero(call.p.interest_rate)) =>
        LET p == call.p
            principal == FSub(p.property_price,
                              FMul(p.property_price, FDiv(p.down_payment_pct, Hundred)))
            payment == FDiv(principal, FromInt(p.loan_term_years * 12))
            per_year == FDiv(principal, FromInt(p.loan_term_years))
        IN /\ MonthlyPayment(p) = payment
           /\ \A k \in 1..Len(ret.cash_flow_table) :
                 /\ ret.cash_flow_table[k].Mortgage = FMul(payment, Twelve)
                 /\ FLe(FAbs(FSub(ret.cash_flow_table[k].Mortgage, per_year)),
                        FMul(Num(1, 6), per_year))

\* A zero-interest loan whose term does not divide the principal evenly.
C4_Witness ==
    /\ ret # None
    /\ HasLoan(call.p)
    /\ IsZero(call.p.interest_rate)
    /\ call.p.loan_term_years = 3
    /\ Len(ret.cash_flow_table) >= 2
    /\ FGt(ret.cash_flow_table[2].Mortgage, Zero)

\* C5: with a loan at a monthly rate of 0 and payments remaining at the sale
\* (loan_term_years * 12 - holding_period * 12 > 0), the balance deducted
\* from the sale proceeds is monthly_payment * remaining_payments.
C5_ZeroRateBalance ==
    (/\ ret # None
     /\ HasLoan(call.p)
     /\ IsZero(MonthlyRate(call.p))
     /\ call.p.loan_term_years * 12 - call.p.holding_period * 12 > 0) =>
        LET p == call.p
            n == call.p.holding_period
            remaining_payments == call.p.loan_term_years * 12 - call.p.holding_period * 12
        IN ret.cash_flows[n + 1] =
               FAdd(RowOperating(ret.cash_flow_table[n]),
                    SaleProceeds(p, CurrentValue(p, n),
                                 FMul(MonthlyPayment(p), FromInt(remaining_payments))))

\* C6: when loan_term_years <= holding_period the balance deducted at the
\* sale is 0, so the last cash flow is operating cash flow + sale value -
\* selling costs; and the balance is negative for no term and holding period.
C6_RetiredLoan ==
    (ret # None /\ call.p.holding_period >= 1) =>
        LET p == call.p
            n == call.p.holding_period
            current_value == CurrentValue(call.p, call.p.holding_period)
        IN /\ ~FLt(LoanBalance(p, LoanLocals(p), n), Zero)
           /\ p.loan_term_years <= n =>
                 /\ LoanBalance(p, LoanLocals(p), n) = Zero
                 /\ ret.cash_flows[n + 1] =
                        FAdd(RowOperating(ret.cash_flow_table[n]),
                             FSub(current_value, SellingCosts(p, current_value)))

\* An interest-bearing loan that ended before the sale year.
C6_Witness ==
    /\ ret # None
    /\ HasLoan(call.p)
    /\ FGt(call.p.interest_rate, Zero)
    /\ call.p.loan_term_years < call.p.holding_period
    /\ FGt(ret.cash_flow_table[1].Mortgage, Zero)

\* monthly_rent * (1 + rent_increase_rate/100)^(k-1) * (1 - vacancy_rate/100) * 12
RentOfYear(p, k) ==
    FMul(FMul(FMul(p.monthly_rent,
                   FPow(FAdd(One, FDiv(p.rent_increase_rate, Hundred)), k - 1)),
              FSub(One, FDiv(p.vacancy_rate, Hundred))),
         Twelve)

\* C20: the rental income of year 1 is computed from the input rent as
\* entered, monthly_rent * (1 - vacancy_rate/100) * 12, and that of year k,
\* for every k in 1..holding_period, is monthly_rent *
\* (1 + rent_increase_rate/100)^(k-1) * (1 - vacancy_rate/100) * 12 (to the
\* rounding of the repeated multiplication).
C20_RentEscalation ==
    (ret # None /\ call.p.holding_period >= 1) =>
        /\ ret.cash_flow_table[1].RentalIncome =
               FMul(FMul(call.p.monthly_rent,
                         FSub(One, FDiv(call.p.vacancy_rate, Hundred))),
                    Twelve)
        /\ \A k \in 1..call.p.holding_period :
              Nearly(ret.cash_flow_table[k].RentalIncome, RentOfYear(call.p, k))

\* A projection over three years with a rent increase: the income of year 3
\* exceeds that of year 2, which exceeds that of year 1.
C20_Witness ==
    /\ ret # None
    /\ call.p.holding_period = 3
    /\ FGt(call.p.rent_increase_rate, Zero)
    /\ FGt(call.p.monthly_rent, Zero)
    /\ FGt(ret.cash_flow_table[2].RentalIncome, ret.cash_flow_table[1].RentalIncome)
    /\ FGt(ret.cash_flow_table[3].RentalIncome, ret.cash_flow_table[2].RentalIncome)

\* C23: in every year 1..holding_period the operating cash flow is
\* effective_rent - monthly_expenses * 12 - monthly_payment * 12, with the
\* one monthly_payment of the loan in every year, the years after
\* loan_term_years included; and in every year but the last the year's
\* cash flow is that operating cash flow.
C23_OperatingCashFlow ==
    (ret # None /\ call.p.holding_period >= 1) =>
        \A k \in 1..call.p.holding_period :
            /\ ret.cash_flow_table[k].Expenses = FMul(call.p.monthly_expenses, Twelve)
            /\ ret.cash_flow_table[k].Mortgage = FMul(MonthlyPayment(call.p), Twelve)
            /\ k < call.p.holding_period =>
                  /\ ret.cash_flows[k + 1] =
                         FSub(FSub(ret.cash_flow_table[k].RentalIncome,
                                   FMul(call.p.monthly_expenses, Twelve)),
                              FMul(MonthlyPayment(call.p), Twelve))
                  /\ ret.cash_flow_table[k].CashFlow = ret.cash_flows[k + 1]

\* A loan of one year held for three: the second year, after the term, is
\* charged the same mortgage as the first.
C23_Witness ==
    /\ ret # None
    /\ call.p.loan_term_years = 1
    /\ call.p.holding_period = 3
    /\ HasLoan(call.p)
    /\ FGt(ret.cash_flow_table[2].Mortgage, Zero)
    /\ ret.cash_flow_table[2].Mortgage = ret.cash_flow_table[1].Mortgage
    /\ ret.cash_flows[3] = RowOperating(ret.cash_flow_table[2])

\* C24: the record of every year k has as 'Cumulative Cash Flow' the sum of
\* cash_flows[0..k], the initial outlay included, and as 'Cash Flow' the
\* element cash_flows[k]; the cumulative figure of the last record is the
\* total_return of the analysis.
C24_CumulativeCashFlow ==
    (ret # None /\ call.p.holding_period >= 1) =>
        /\ \A k \in 1..call.p.holding_period :
              /\ ret.cash_flow_table[k].Year = k
              /\ ret.cash_flow_table[k].CashFlow = ret.cash_flows[k + 1]
              /\ ret.cash_flow_table[k].CumulativeCashFlow =
                     FSum(SubSeq(ret.cash_flows, 1, k + 1))
        /\ ret.cash_flow_table[call.p.holding_period].CumulativeCashFlow =
               ret.total_return

\* Three years bought with a down payment: the cumulative figure of year 2
\* differs from the sum of the yearly flows by the outlay.
C24_Witness ==
    /\ ret # None
    /\ call.p.holding_period = 3
    /\ FLt(ret.cash_flows[1], Zero)
    /\ ret.cash_flow_table[2].CumulativeCashFlow #
           FAdd(ret.cash_flows[2], ret.cash_flows[3])
    /\ ret.cash_flow_table[3].CumulativeCashFlow = ret.total_return
    /\ ~IsZero(ret.total_return)

----------------------------------------------------------------------------
(* Direct calls of calculate_irr and calculate_npv                         *)

Ints(xs) == [i \in 1..Len(xs) |-> FromInt(xs[i])]

\* One-period series [-C, C * g]: g = 1 + r is kept with the call.
Outlays == {1, 100, 1000}
GrossReturns == {Num(5, 1), Num(55, 2), Num(56, 2), Num(9, 1), One, Num(11, 1),
                 Num(1100105, 6), Num(1105, 3), Num(12, 1), FromInt(3)}
OnePeriodCalls ==
    {[fn |-> "calculate_irr",
      cash_flows |-> <<FromInt(0 - c), FMul(FromInt(c), g)>>,
      outlay |-> FromInt(c), gross |-> g] : c \in Outlays, g \in GrossReturns}

\* Two-period series with up to two sign changes.
FlowValues == {0 - 182, 0 - 100, 0 - 94, 0, 10, 110, 248}
TwoPeriodCalls ==
    {[fn |-> "calculate_irr", cash_flows |-> Ints(<<a, b, c>>)] :
        a \in FlowValues, b \in FlowValues, c \in FlowValues}

InitIrr ==
    /\ results = None /\ analysis_params = None /\ scenario_npvs = None
    /\ page = [kind |-> "welcome"]
    /\ call \in OnePeriodCalls \cup TwoPeriodCalls
    /\ ret = None

CallIrr ==
    /\ call # None /\ call.fn = "calculate_irr"
    /\ ret = None
    /\ ret' = [irr |-> calculate_irr(call.cash_flows),
               loop |-> calculate_irr_manual(call.cash_flows)]
    /\ UNCHANGED <<session, call>>

NextIrr == CallIrr

SpecIrr == InitIrr /\ [][NextIrr]_vars

----------------------------------------------------------------------------
(* Properties of calculate_irr, checked on SpecIrr                         *)

\* The call is one of the one-period series [-C, C * g]; r * 100 for it.
OnePeriod == call # None /\ "gross" \in DOMAIN call
OnePeriodPercent == FMul(FSub(call.gross, One), Hundred)

\* C7: calculate_irr returns 0.0 when the solver fails: when the loop runs
\* its 1000 passes without reaching |npv| < 0.01, or when a pass raises an
\* arithmetic error.
C7_FailureGivesZero ==
    (ret # None /\ ret.loop[2] \in {"exhausted", "raised"}) => ret.irr = Zero

----------------------------------------------------------------------------
(* The risk assessment on given scenario NPVs                              *)

NpvValues == {FromInt(0 - 1000000), Zero, FromInt(2000000), FromInt(5000000)}
NpvInputs == {[worst |-> w, base |-> b, best |-> g] :
                 w \in NpvValues, b \in NpvValues, g \in NpvValues}

RiskParams ==
    {Params(FromInt(1000), down, 3, rate, rent, Num(6, 1),
            FromInt(5), FromInt(2), 2, FromInt(3), FromInt(5), FromInt(5)) :
        down \in {FromInt(20), FromInt(100)},
        rate \in {Zero, Num(35, 1)},
        rent \in {Zero, FromInt(3)}}

InitRisk ==
    /\ results = None /\ analysis_params = None /\ scenario_npvs = None
    /\ page = [kind |-> "welcome"]
    /\ call \in {[fn |-> "risk", npvs |-> n, probs |-> q, p |-> p] :
                    n \in NpvInputs, q \in ProbInputs, p \in RiskParams}
    /\ ret = None

CallRisk ==
    /\ call # None /\ call.fn = "risk"
    /\ ret = None
    /\ ret' = RiskPage(call.npvs, call.probs, call.p)
    /\ UNCHANGED <<session, call>>

NextRisk == CallRisk

SpecRisk == InitRisk /\ [][NextRisk]_vars

----------------------------------------------------------------------------
(* Properties of the risk assessment, checked on SpecRisk                  *)

\* The risk form was submitted with Worst, Base and Best NPVs of -1,000,000,
\* 2,000,000 and 5,000,000 and the probabilities 25 / 50 / 25.
C10_Case ==
    /\ ret # None
    /\ call.npvs = [worst |-> FromInt(0 - 1000000), base |-> FromInt(2000000),
                    best |-> FromInt(5000000)]
    /\ call.probs = Probs(FromInt(25), FromInt(50), FromInt(25))

\* C10 as stated: for these NPVs and probabilities the assessment's
\* expected_npv (the sum of npv_i * p_i / 100) is exactly 1,750,000.
C10_ExpectedNpvStated ==
    C10_Case => (ret.kind = "risk" /\ ret.risk.expected_npv = FromInt(1750000))

\* C10, amended: for these NPVs and probabilities the assessment's
\* expected_npv, the sum of npv_i * p_i / 100, is exactly 2,000,000
\* (-250,000 + 1,000,000 + 1,250,000).
C10_ExpectedNpv ==
    C10_Case =>
        /\ ret.kind = "risk"
        /\ ret.risk.expected_npv = FromInt(2000000)
        /\ ret.risk.expected_npv =
               FAdd(FAdd(FromInt(0 - 250000), FromInt(1000000)), FromInt(1250000))

\* That assessment was made.
C10_Witness ==
    /\ ret # None
    /\ ret.kind = "risk"
    /\ ret.npvs.worst = FromInt(0 - 1000000)
    /\ ret.npvs.base = FromInt(2000000)
    /\ ret.npvs.best = FromInt(5000000)
    /\ ret.probs = Probs(FromInt(25), FromInt(50), FromInt(25))
    /\ FGt(ret.risk.expected_npv, Zero)

\* A score of the assessment lies in [0, 100].
InScoreRange(x) == FGe(x, Zero) /\ FLe(x, Hundred)

\* C11: whatever the three scenario NPVs, a valid submission's worst_score,
\* volatility_score and expected_score each lie in [0, 100], and so does
\* risk_score = 0.4 * worst_score + 0.3 * volatility_score
\* + 0.3 * expected_score; worst_score and expected_score are 0 whenever
\* base_npv <= 0.
C11_ScoresInRange ==
    (ret # None /\ ret.kind = "risk") =>
        /\ InScoreRange(ret.risk.worst_score)
        /\ InScoreRange(ret.risk.volatility_score)
        /\ InScoreRange(ret.risk.expected_score)
        /\ ret.risk.risk_score =
               FAdd(FAdd(FMul(ret.risk.worst_score, Num(4, 1)),
                         FMul(ret.risk.volatility_score, Num(3, 1))),
                    FMul(ret.risk.expected_score, Num(3, 1)))
        /\ InScoreRange(ret.risk.risk_score)
        /\ FLe(ret.npvs.base, Zero) =>
               (IsZero(ret.risk.worst_score) /\ IsZero(ret.risk.expected_score))

\* An assessment whose worst NPV exceeds the base one, so that the clamp
\* cuts worst_score to 100, with a volatility score inside the range.
C11_Witness ==
    /\ ret # None
    /\ ret.kind = "risk"
    /\ FGt(ret.npvs.base, Zero)
    /\ FGt(ret.npvs.worst, ret.npvs.base)
    /\ ret.risk.worst_score = Hundred
    /\ FGt(ret.risk.volatility_score, Zero)
    /\ FLt(ret.risk.volatility_score, Hundred)

\* (annual_expenses + 12 * monthly_payment) / annual_rent_potential * 100,
\* with the monthly payment the projection charges for the input.
BreakevenOfProjection(p) ==
    FMul(FDiv(FAdd(FMul(p.monthly_expenses, Twelve),
                   FMul(MonthlyPayment(p), Twelve)),
              FMul(p.monthly_rent, Twelve)),
         Hundred)

\* C12: breakeven occupancy is (annual_expenses + annual_debt_service) /
\* annual_rent_potential * 100, annual_debt_service being 12 times the
\* monthly payment of the cash-flow projection for the same input, with or
\* without interest on the loan; it is 100 when monthly_rent <= 0.
C12_BreakevenDebtService ==
    (ret # None /\ ret.kind = "risk") =>
        IF FGt(call.p.monthly_rent, Zero)
        THEN Nearly(ret.risk.breakeven_occupancy, BreakevenOfProjection(call.p))
        ELSE ret.risk.breakeven_occupancy = Hundred

\* C13: with a down payment of 100% (no debt) and monthly_rent > 0 the
\* breakeven occupancy is exactly annual_expenses / annual_rent_potential
\* * 100; and margin_of_safety, max(0, 100 - vacancy_rate -
\* breakeven_occupancy), is negative for no input.
C13_NoDebtBreakeven ==
    (ret # None /\ ret.kind = "risk") =>
        /\ FGe(ret.risk.margin_of_safety, Zero)
        /\ ret.risk.margin_of_safety =
               FMax(Zero, FSub(FSub(Hundred, call.p.vacancy_rate),
                               ret.risk.breakeven_occupancy))
        /\ (call.p.down_payment_pct = Hundred /\ FGt(call.p.monthly_rent, Zero)) =>
               ret.risk.breakeven_occupancy =
                   FMul(FDiv(FMul(call.p.monthly_expenses, Twelve),
                             FMul(call.p.monthly_rent, Twelve)),
                        Hundred)

\* An assessment of a property bought without a loan at an interest rate
\* above 0, with a positive margin.
C13_Witness ==
    /\ ret # None
    /\ ret.kind = "risk"
    /\ call.p.down_payment_pct = Hundred
    /\ FGt(call.p.interest_rate, Zero)
    /\ FGt(call.p.monthly_rent, Zero)
    /\ ret.risk.breakeven_occupancy = FromInt(20)
    /\ ret.risk.margin_of_safety = FromInt(75)

----------------------------------------------------------------------------
(* Direct calls of comprehensive_analysis outside the input contract       *)

\* Arguments of which some violate the contract: a holding period below 1,
\* a negative price, rent or expenses.
ContractInputs ==
    {Params(price, FromInt(20), 3, rate, rent, expenses, FromInt(5), FromInt(2),
            hold, FromInt(3), FromInt(5), discount) :
        price \in {FromInt(0 - 1000), FromInt(1000)},
        rate \in {Zero, Num(35, 1)},
        rent \in {FromInt(0 - 3), FromInt(3)},
        expenses \in {Num(0 - 6, 1), Num(6, 1)},
        hold \in {0 - 1, 0, 1},
        discount \in {Zero, FromInt(5)}}

InitContract ==
    /\ results = None /\ analysis_params = None /\ scenario_npvs = None
    /\ page = [kind |-> "welcome"]
    /\ call \in {[fn |-> "comprehensive_analysis", p |-> p] : p \in ContractInputs}
    /\ ret = None

SpecContract == InitContract /\ [][NextProj]_vars

----------------------------------------------------------------------------
(* Properties of the input contract, checked on SpecContract               *)

\* C14: for an input outside the contract (holding_period < 1, a negative
\* property_price, monthly_rent or monthly_expenses) comprehensive_analysis
\* and the projection it calls report a validation failure: what they
\* return carries no cash-flow series and no metrics.
C14_OutOfContractRejected ==
    (ret # None /\ ~InContract(call.p)) =>
        /\ "cash_flows" \notin DOMAIN ret
        /\ "cash_flow_table" \notin DOMAIN ret
        /\ "npv" \notin DOMAIN ret
        /\ "irr" \notin DOMAIN ret

----------------------------------------------------------------------------
(* Direct calls of the yield functions                                     *)

Prices == {FromInt(0 - 1000), Zero, FromInt(1000)}
AnnualAmounts == {FromInt(0 - 36), Zero, FromInt(36), FromInt(1000)}
AnnualCosts == {Zero, Num(72, 1), FromInt(50)}

YieldCalls ==
    {[fn |-> "calculate_gross_yield", property_price |-> price, annual_rent |-> rent] :
        price \in Prices, rent \in AnnualAmounts}
    \cup {[fn |-> "calculate_net_yield", property_price |-> price, annual_rent |-> rent,
           annual_costs |-> costs] :
             price \in Prices, rent \in AnnualAmounts, costs \in AnnualCosts}
    \cup {[fn |-> "calculate_cap_rate", property_price |-> price, noi |-> noi] :
             price \in Prices, noi \in AnnualAmounts}
    \cup {[fn |-> "calculate_cash_on_cash", annual_cash_flow |-> flow,
           initial_investment |-> investment] :
             flow \in AnnualAmounts, investment \in Prices}

InitYield ==
    /\ results = None /\ analysis_params = None /\ scenario_npvs = None
    /\ page = [kind |-> "welcome"]
    /\ call \in YieldCalls
    /\ ret = None

CallGrossYield ==
    /\ call # None /\ call.fn = "calculate_gross_yield"
    /\ ret = None
    /\ ret' = [value |-> calculate_gross_yield(call.property_price, call.annual_rent)]
    /\ UNCHANGED <<session, call>>

CallNetYield ==
    /\ call # None /\ call.fn = "calculate_net_yield"
    /\ ret = None
    /\ ret' = [value |-> calculate_net_yield(call.property_price, call.annual_rent,
                                             call.annual_costs)]
    /\ UNCHANGED <<session, call>>

CallCapRate ==
    /\ call # None /\ call.fn = "calculate_cap_rate"
    /\ ret = None
    /\ ret' = [value |-> calculate_cap_rate(call.property_price, call.noi)]
    /\ UNCHANGED <<session, call>>

CallCashOnCash ==
    /\ call # None /\ call.fn = "calculate_cash_on_cash"
    /\ ret = None
    /\ ret' = [value |-> calculate_cash_on_cash(call.annual_cash_flow,
                                                call.initial_investment)]
    /\ UNCHANGED <<session, call>>

NextYield == CallGrossYield \/ CallNetYield \/ CallCapRate \/ CallCashOnCash

SpecYield == InitYield /\ [][NextYield]_vars

----------------------------------------------------------------------------
(* Properties of the yield functions, checked on SpecYield                 *)

\* C16: a degenerate denominator gives 0.0 and no error: gross yield, net
\* yield and cap rate are 0.0 whenever property_price <= 0, and cash-on-cash
\* is 0.0 whenever initial_investment <= 0, whatever the other arguments;
\* with a positive denominator each is the ratio times 100.
C16_DegenerateDenominators ==
    ret # None =>
        /\ (call.fn \in {"calculate_gross_yield", "calculate_net_yield",
                         "calculate_cap_rate"}
            /\ FLe(call.property_price, Zero)) => ret.value = Zero
        /\ (call.fn = "calculate_cash_on_cash" /\ FLe(call.initial_investment, Zero)) =>
               ret.value = Zero
        /\ (call.fn = "calculate_gross_yield" /\ FGt(call.property_price, Zero)) =>
               ret.value = FMul(FDiv(call.annual_rent, call.property_price), Hundred)
        /\ (call.fn = "calculate_cash_on_cash" /\ FGt(call.initial_investment, Zero)) =>
               ret.value = FMul(FDiv(call.annual_cash_flow, call.initial_investment),
                                Hundred)

\* Cash-on-cash was asked for a negative investment and a cash flow other
\* than 0, and came out as 0.
C16_Witness ==
    /\ ret # None
    /\ call.fn = "calculate_cash_on_cash"
    /\ FLt(call.initial_investment, Zero)
    /\ ~IsZero(call.annual_cash_flow)
    /\ ret.value = Zero

----------------------------------------------------------------------------
(* Calls on one shared RealEstateFeasibilityCalculator                     *)

\* __init__ (lines 39-41): self.cash_flows = [], self.results = {}.
NewCalculator == [cash_flows |-> <<>>, results |-> {}]

\* What a method returns for its arguments.
MethodValue(c) ==
    IF c.method = "comprehensive_analysis" THEN comprehensive_analysis(c.p)
    ELSE IF c.method = "generate_cash_flow_projection"
    THEN generate_cash_flow_projection(c.p)
    ELSE IF c.method = "calculate_npv" THEN calculate_npv(c.discount_rate, c.cash_flows)
    ELSE calculate_gross_yield(c.property_price, c.annual_rent)

\* A method that keeps its first result in self.results and returns it to
\* every later call.
InvokeCaching(self, c) ==
    IF self.results # {}
    THEN [self |-> self, value |-> (CHOOSE kept \in self.results : TRUE)]
    ELSE [self |-> [self EXCEPT !.results = {MethodValue(c)}], value |-> MethodValue(c)]

\* One method call on an instance: the instance after the call and the
\* value returned.  No method assigns to or reads an attribute of self
\* (lines 43-227 use self only to call other methods).
Invoke(self, c) == [self |-> self, value |-> MethodValue(c)]

MaxCalls == 2

SharedP(rate) ==
    Params(FromInt(1000), FromInt(20), 3, rate, FromInt(3), Num(6, 1),
           FromInt(5), FromInt(2), 2, FromInt(3), FromInt(5), FromInt(5))

MethodCalls ==
    {[method |-> "comprehensive_analysis", p |-> SharedP(rate)] :
        rate \in {Zero, Num(35, 1)}}
    \cup {[method |-> "generate_cash_flow_projection", p |-> SharedP(rate)] :
             rate \in {Zero, Num(35, 1)}}
    \cup {[method |-> "calculate_npv", discount_rate |-> FromInt(5),
           cash_flows |-> Ints(<<0 - 100, 60, 60>>)],
          [method |-> "calculate_gross_yield", property_price |-> FromInt(1000),
           annual_rent |-> FromInt(36)]}

\* MaxCalls calls waiting to be made on one new instance, in any order.
InitShared ==
    /\ results = None /\ analysis_params = None /\ scenario_npvs = None
    /\ page = [kind |-> "welcome"]
    /\ call \in {[fn |-> "shared", self |-> NewCalculator, calls |-> calls] :
                    calls \in [1..MaxCalls -> MethodCalls]}
    /\ ret = [i \in 1..MaxCalls |-> None]

\* The i-th call is made on the shared instance.
CallOnShared(i) ==
    /\ call # None /\ call.fn = "shared"
    /\ ret[i] = None
    /\ call' = [call EXCEPT !.self = Invoke(call.self, call.calls[i]).self]
    /\ ret' = [ret EXCEPT ![i] = [value |-> Invoke(call.self, call.calls[i]).value]]
    /\ UNCHANGED session

NextShared == \E i \in 1..MaxCalls : CallOnShared(i)

SpecShared == InitShared /\ [][NextShared]_vars

----------------------------------------------------------------------------
(* Properties of the shared instance, checked on SpecShared                *)

\* C21: the calculator holds no state between calls: no call changes
\* self.cash_flows or self.results, and in whatever order the calls on one
\* shared instance are made, each returns what the same call returns when
\* made alone on a new instance.
C21_NoStateBetweenCalls ==
    /\ call.self = NewCalculator
    /\ \A i \in 1..MaxCalls :
          ret[i] # None =>
              ret[i].value = Invoke(NewCalculator, call.calls[i]).value

\* Two analyses of different inputs were both made on the shared instance
\* and returned different results.
C21_Witness ==
    /\ ret[1] # None
    /\ ret[2] # None
    /\ call.calls[1].method = "comprehensive_analysis"
    /\ call.calls[2].method = "comprehensive_analysis"
    /\ ret[1].value.npv # ret[2].value.npv

\* C30: when the base scenario's NPV is 0 or less, the risk score is at
\* most 30 whatever the worst and best NPVs and the valid probabilities,
\* the worst-case and expected-value components being 0; when the base NPV
\* is exactly 0 the coefficient of variation is forced to 0, the volatility
\* component is 100 and the risk score is exactly 30.
C30_NonPositiveBaseScore ==
    (ret # None /\ ret.kind = "risk" /\ FLe(ret.npvs.base, Zero)) =>
        /\ ret.risk.worst_score = Zero
        /\ ret.risk.expected_score = Zero
        /\ ret.risk.risk_score = FMul(ret.risk.volatility_score, Num(3, 1))
        /\ FLe(ret.risk.risk_score, FromInt(30))
        /\ IsZero(ret.npvs.base) =>
              /\ ret.risk.cv = Zero
              /\ ret.risk.volatility_score = Hundred
              /\ ret.risk.risk_score = FromInt(30)

\* A base NPV of exactly 0 between a loss and a gain: the three NPVs
\* deviate from their mean, and the score is 30.
C30_Witness ==
    /\ ret # None
    /\ ret.kind = "risk"
    /\ IsZero(ret.npvs.base)
    /\ FLt(ret.npvs.worst, Zero)
    /\ FGt(ret.npvs.best, Zero)
    /\ FGt(ret.risk.std_dev, Zero)
    /\ ret.risk.risk_score = FromInt(30)

=============================================================================
